---- MODULE Spec2Model ----
(***************************************************************************)
(* PickleModelIO of mlem/contrib/callable.py: a value graph is pickled     *)
(* with an interception hook (persistent_id) that replaces every sub-value *)
(* owning a non-pickle ModelIO by a uuid placeholder; dump multiplexes the *)
(* root blob, the referenced codecs' artifacts and their descriptors into  *)
(* one flat artifact dict; load demultiplexes it and unpickles the root    *)
(* blob, resolving placeholders through persistent_load.                   *)
(*                                                                         *)
(* Strings (artifact names, paths, uuids, dotted type names) are sequences *)
(* of one-character strings, so that prefixing, suffix tests and splitting *)
(* are computed as the code computes them.  Python dicts are sequences of  *)
(* <<key, value>> pairs in insertion order.                                *)
(*                                                                         *)
(* What lies outside callable.py is modelled at its interface: the pickler *)
(* (dill / pickle) asks persistent_id before it looks into its memo and    *)
(* does not descend into an object that got a persistent id; uuid4 never   *)
(* repeats a draw; a referenced codec writes one artifact per name it      *)
(* chooses and may raise; a storage write may raise.                       *)
(***************************************************************************)
EXTENDS Integers, Sequences, FiniteSets, TLC

\* ------------------------------------------------------------- bounds
\* Largest number of fields / elements of one node.
MaxKids == 2
\* Width of a uuid string (36 in CPython; every uuid4 has the same width).
TokLen == 3

\* The dumped value graphs have three objects; object 1 is the dumped model.
Nodes == {1, 2, 3}

\* ------------------------------------------------------------ strings
file_name == <<"d", "a", "t", "a", ".", "p", "k", "l">>
io_ext == <<".", "i", "o">>
\* The target path handed to dump.
TargetPath == <<"m">>

EndsWith(s, suf) ==
  /\ Len(s) >= Len(suf)
  /\ SubSeq(s, Len(s) - Len(suf) + 1, Len(s)) = suf

\* art_name[: -len(io_ext)]
StripSuffix(s, suf) == SubSeq(s, 1, Len(s) - Len(suf))

HasChar(s, ch) == \E i \in DOMAIN s : s[i] = ch

FirstIndex(s, ch) == CHOOSE i \in DOMAIN s : s[i] = ch /\ \A j \in 1..(i - 1) : s[j] # ch

LastIndex(s, ch) == CHOOSE i \in DOMAIN s : s[i] = ch /\ \A j \in (i + 1)..Len(s) : s[j] # ch

\* art_name.split("_", maxsplit=1), for a name that holds the delimiter
SplitFirst(s, ch) ==
  LET i == FirstIndex(s, ch)
  IN  <<SubSeq(s, 1, i - 1), SubSeq(s, i + 1, Len(s))>>

\* posixpath.join(a, b)
PathJoin(a, b) ==
  IF Len(b) > 0 /\ b[1] = "/" THEN b
  ELSE IF Len(a) = 0 \/ a[Len(a)] = "/" THEN a \o b
  ELSE a \o <<"/">> \o b

\* -------------------------------------------------------------- dicts
Keys(d) == {d[i][1] : i \in DOMAIN d}

Get(d, k) == d[CHOOSE i \in DOMAIN d : d[i][1] = k][2]

\* d[k] = v
Put(d, k, v) ==
  IF k \in Keys(d)
  THEN [i \in DOMAIN d |-> IF d[i][1] = k THEN <<k, v>> ELSE d[i]]
  ELSE Append(d, <<k, v>>)

RECURSIVE Update(_, _)
\* d.update(e)
Update(d, e) ==
  IF e = <<>> THEN d ELSE Update(Put(d, e[1][1], e[1][2]), Tail(e))

\* del d[k]
Remove(d, k) == SelectSeq(d, LAMBDA kv : kv[1] # k)

\* ------------------------------------------------------------- codecs
\* ModelIO classes.  PickleModelIO and SimplePickleIO are the generic codec;
\* IoA, IoB and Io0 stand for ModelIO classes of other integrations.
PickleIOs == {"PickleModelIO", "SimplePickleIO"}
OtherIOs == {"IoA", "IoB", "Io0"}
IOs == PickleIOs \cup OtherIOs

\* type(io).__module__ and type(io).__name__
IoModule(io) ==
  CASE io = "PickleModelIO" -> <<"c">>
    [] io = "SimplePickleIO" -> <<"m">>
    [] io = "IoA" -> <<"x", ".", "a">>
    [] io = "IoB" -> <<"x", ".", "b">>
    [] OTHER -> <<"x">>

IoTypeName(io) ==
  CASE io = "PickleModelIO" -> <<"P">>
    [] io = "SimplePickleIO" -> <<"S">>
    [] io = "IoA" -> <<"A">>
    [] io = "IoB" -> <<"B">>
    [] OTHER -> <<"Z">>

\* The names a codec gives the artifacts of its own dump: IoA's name holds the
\* delimiter, one of IoB's names ends like a descriptor, Io0 writes nothing.
SubNames(io) ==
  CASE io = "IoA" -> << <<"a", "_", "b">> >>
    [] io = "IoB" -> << <<"m">>, <<"w", ".", "i", "o">> >>
    [] io = "Io0" -> << >>
    [] OTHER -> << file_name >>

\* -------------------------------------------------------- value graph
\* Runtime types of the nodes.  "plain" is no member of any hook's valid_types;
\* the others are, and ModelAnalyzer.analyze answers for them as Analyze says.
Types == {"plain", "tNA", "tPkl", "tSPkl", "tA", "tB", "t0"}

KidSeqs(n) ==
  UNION {[1..k -> {m \in Nodes : m > n}] : k \in 0..MaxKids}

VARIABLES ntype, kids, seed
graph == <<ntype, kids, seed>>

\* ModelAnalyzer.hooks' valid_types, CallableModelType left out
known_types == Types \ {"plain"}

\* ModelAnalyzer.analyze(obj).io, or the ValueError it raises
Analyze(t) ==
  CASE t = "tNA" -> "ValueError"
    [] t = "tPkl" -> "PickleModelIO"
    [] t = "tSPkl" -> "SimplePickleIO"
    [] t = "tA" -> "IoA"
    [] t = "tB" -> "IoB"
    [] t = "t0" -> "Io0"
    [] OTHER -> "PickleModelIO"

\* An object of type t0 carries no state (its codec writes no artifact).
NodeVal(n) == IF ntype[n] = "t0" THEN 0 ELSE n

RECURSIVE Unfold(_)
\* The value a node stands for: its type, its own data and its fields.
Unfold(n) ==
  [type |-> ntype[n], val |-> NodeVal(n),
   kids |-> [i \in 1..Len(kids[n]) |-> Unfold(kids[n][i])]]

\* ---------------------------------------------------------- the pickler
None == "None"
\* The None persistent_id returns (a pid is a string, a sequence here).
NonePid == <<>>

\* uuid4 draws from a pool of fixed-width strings over characters a uuid can
\* hold (no "_", no "."); a draw never repeats an earlier one.  seed is the
\* order of the draws, cnt the number of draws made so far.
TokChars == <<"a", "f">>

Pow2(k) == 2 ^ k

TokOf(k) == [i \in 1..TokLen |-> TokChars[((k \div Pow2(TokLen - i)) % 2) + 1]]

Tokens == {TokOf(k) : k \in 0..(Pow2(TokLen) - 1)}

Seeds == {"up", "down"}

uuid4(sd, cnt) == IF sd = "up" THEN TokOf(cnt) ELSE TokOf(Pow2(TokLen) - 1 - cnt)

\* isinstance(io, PickleModelIO) alone
IsPickleModelIO(io) == io = "PickleModelIO"

\* isinstance(io, (PickleModelIO, SimplePickleIO))
IsPickleIO(io) == io \in {"PickleModelIO", "SimplePickleIO"}

\* What the except clause of _get_non_pickle_io makes of analyze's ValueError.
OnValueError == None

_get_non_pickle_io(n) ==
  IF ntype[n] \notin known_types THEN None
  ELSE LET io == Analyze(ntype[n])
       IN  IF io = "ValueError" THEN OnValueError
           ELSE IF IsPickleIO(io) THEN None ELSE io

\* persistent_id that reuses the uuid of an object it met before.
persistent_id_dedup(refs, cnt, n) ==
  LET io == _get_non_pickle_io(n)
      obj_uuid == uuid4(seed, cnt)
      met == {k \in DOMAIN refs : refs[k][2][2] = n}
  IN  IF io = None
      THEN [pid |-> NonePid, refs |-> refs, cnt |-> cnt]
      ELSE IF met # {}
      THEN [pid |-> refs[CHOOSE k \in met : TRUE][1], refs |-> refs, cnt |-> cnt]
      ELSE [pid |-> obj_uuid,
            refs |-> Put(refs, obj_uuid, <<io, n>>),
            cnt |-> cnt + 1]

\* persistent_id(obj) on a pickler whose refs and uuid draws are given:
\* the persistent id it returns, and the pickler's refs and draws afterwards.
persistent_id(refs, cnt, n) ==
  LET io == _get_non_pickle_io(n)
      obj_uuid == uuid4(seed, cnt)
  IN  IF io = None
      THEN [pid |-> NonePid, refs |-> refs, cnt |-> cnt]
      ELSE [pid |-> obj_uuid,
            refs |-> Put(refs, obj_uuid, <<io, n>>),
            cnt |-> cnt + 1]

MemoIndex(memo, n) == CHOOSE i \in DOMAIN memo : memo[i] = n

RECURSIVE Save(_, _)
RECURSIVE SaveAll(_, _)
\* Pickler.save(obj): the persistent id is asked for first, then the memo,
\* then the object is written and memoized and its fields are saved.
Save(n, st) ==
  LET r == persistent_id(st.refs, st.cnt, n)
  IN  IF r.pid # NonePid
      THEN [st EXCEPT !.out = Append(@, <<"PERSID", r.pid>>),
                      !.refs = r.refs, !.cnt = r.cnt]
      ELSE IF \E i \in DOMAIN st.memo : st.memo[i] = n
      THEN [st EXCEPT !.out = Append(@, <<"GET", MemoIndex(st.memo, n)>>)]
      ELSE SaveAll(kids[n],
             [st EXCEPT !.out = Append(@, <<"OBJ", ntype[n], NodeVal(n), Len(kids[n])>>),
                        !.memo = Append(@, n)])

SaveAll(ks, st) ==
  IF ks = <<>> THEN st ELSE SaveAll(Tail(ks), Save(ks[1], st))

\* _serialize_model(model): the payload and the refs
_serialize_model(n) ==
  LET st == Save(n, [out |-> <<>>, memo |-> <<>>, refs |-> <<>>, cnt |-> 0])
  IN  <<st.out, st.refs>>

\* -------------------------------------------------------- the unpickler
NoneVal == [type |-> "None", val |-> 0, kids |-> <<>>]

\* self.refs.get(pid): no error for a pid that refs does not hold
persistent_load_get(refs, pid) ==
  IF pid \in Keys(refs)
  THEN [err |-> "none", val |-> Get(refs, pid)]
  ELSE [err |-> "none", val |-> NoneVal]

\* _ModelUnpickler.persistent_load(pid): self.refs[pid]
persistent_load(refs, pid) ==
  IF pid \in Keys(refs)
  THEN [err |-> "none", val |-> Get(refs, pid)]
  ELSE [err |-> "KeyError", val |-> NoneVal]

RECURSIVE Load(_, _, _, _)
RECURSIVE LoadKids(_, _, _, _, _, _)
\* Unpickler.load from position pos: the value, the position after it, the
\* memo, and the error raised (none when it returns).
Load(stream, pos, memo, refs) ==
  LET op == stream[pos]
  IN  IF op[1] = "PERSID"
      THEN LET r == persistent_load(refs, op[2])
           IN  [val |-> r.val, pos |-> pos + 1, memo |-> memo, err |-> r.err]
      ELSE IF op[1] = "GET"
      THEN [val |-> memo[op[2]], pos |-> pos + 1, memo |-> memo, err |-> "none"]
      ELSE LET idx == Len(memo) + 1
               r == LoadKids(stream, pos + 1, Append(memo, NoneVal), refs, op[4], <<>>)
               v == [type |-> op[2], val |-> op[3], kids |-> r.val]
           IN  [val |-> v, pos |-> r.pos,
                memo |-> [r.memo EXCEPT ![idx] = v], err |-> r.err]

LoadKids(stream, pos, memo, refs, k, acc) ==
  IF k = 0 THEN [val |-> acc, pos |-> pos, memo |-> memo, err |-> "none"]
  ELSE LET r == Load(stream, pos, memo, refs)
       IN  IF r.err # "none"
           THEN [val |-> acc, pos |-> r.pos, memo |-> r.memo, err |-> r.err]
           ELSE LoadKids(stream, r.pos, r.memo, refs, k - 1, Append(acc, r.val))

\* _deserialize_model(in_file, refs)
_deserialize_model(stream, refs) == Load(stream, 1, <<>>, refs)

\* _serialize_io(io): the dotted name of io's class
_serialize_io(io) == IoModule(io) \o <<".">> \o IoTypeName(io)

\* _deserialize_io: the class named by the text, instantiated; binary data or a
\* name that resolves to nothing importable raises.
_deserialize_io(content) ==
  IF content.kind # "text" \/ ~HasChar(content.data, ".") THEN "ImportError"
  ELSE LET i == LastIndex(content.data, ".")
           mod_name == SubSeq(content.data, 1, i - 1)
           type_name == SubSeq(content.data, i + 1, Len(content.data))
           found == {io \in IOs : IoModule(io) = mod_name /\ IoTypeName(io) = type_name}
       IN  IF found = {} THEN "ImportError" ELSE CHOOSE io \in found : TRUE

\* ------------------------------------------------------------- storage
\* An artifact is the handle storage.open returns: what was written where.
Artifact(uri) == [uri |-> uri]

RootBlob(stream) == [kind |-> "pickle", data |-> stream]
TextBlob(chars) == [kind |-> "text", data |-> chars]
EmptyBlob == [kind |-> "empty", data |-> <<>>]

\* A close that is skipped when the block raises.
ExitWithoutFinally(handles, h, raised) == IF raised THEN handles ELSE handles \ {h}

\* Leaving a with block releases its handle, on return and on raise alike.
ExitWith(handles, h, raised) == handles \ {h}

\* The root blob always under the target path.
RootPathJoined(nrefs) == PathJoin(TargetPath, file_name)

\* Where dump writes the root blob.
RootPath(nrefs) ==
  IF nrefs = 0 THEN TargetPath ELSE PathJoin(TargetPath, file_name)

\* f"_{k}": the uuid left out of the name
DataNameNoUuid(uuid, k) == <<"_">> \o k

\* f"{uuid}_{k}"
DataName(uuid, k) == uuid \o <<"_">> \o k

\* The descriptor named like a data artifact.
DescNameAsData(uuid) == uuid \o <<"_">> \o io_ext

\* uuid + self.io_ext
DescName(uuid) == uuid \o io_ext

\* io.dump(storage, path, obj) of a referenced codec: one artifact per name of
\* the codec, each holding the codec's encoding of the object.
CodecPath(uuid) == PathJoin(TargetPath, uuid)

CodecBlob(io, name, n) == [kind |-> "bin", data |-> <<io, name, Unfold(n)>>]

CodecDump(io, path, n) ==
  [k \in 1..Len(SubNames(io)) |->
     <<SubNames(io)[k], Artifact(PathJoin(path, SubNames(io)[k]))>>]

\* The store after the codec wrote the first m of its artifacts.
CodecWrites(st, io, path, n, m) ==
  [p \in {PathJoin(path, SubNames(io)[k]) : k \in 1..m} |->
     LET k == CHOOSE k \in 1..m : PathJoin(path, SubNames(io)[k]) = p
     IN  CodecBlob(io, SubNames(io)[k], n)] @@ st

\* The re-keyed entries dump merges into arts for one reference.
Rekey(uuid, sub) == [k \in DOMAIN sub |-> <<DataName(uuid, sub[k][1]), sub[k][2]>>]

\* io.load(artifacts) of a referenced codec: the object, when the artifacts
\* are the ones its dump returned; it raises otherwise.
CodecLoad(st, io, mapping) ==
  LET good == /\ Keys(mapping) = {SubNames(io)[k] : k \in DOMAIN SubNames(io)}
              /\ \A k \in DOMAIN mapping :
                   /\ mapping[k][2].uri \in DOMAIN st
                   /\ st[mapping[k][2].uri].kind = "bin"
                   /\ st[mapping[k][2].uri].data[1] = io
                   /\ st[mapping[k][2].uri].data[2] = mapping[k][1]
  IN  IF ~good THEN [err |-> "CodecError", val |-> NoneVal]
      ELSE IF mapping = <<>>
      THEN [err |-> "none", val |-> [type |-> "t0", val |-> 0, kids |-> <<>>]]
      ELSE [err |-> "none", val |-> st[mapping[1][2].uri].data[3]]

\* -------------------------------------------------------------- state
VARIABLES
  pc,         \* position of the running dump or load
  blob,       \* model_blob of dump
  refs,       \* refs of dump: uuid -> (io, obj)
  i,          \* position of dump's loop over refs.items()
  arts,       \* arts of dump
  store,      \* the storage: path -> blob written there
  open,       \* the handles (paths) open in a with block of dump or load
  err,        \* the exception that ended dump or load ("none": none)
  ret,        \* the Artifacts dump returned (<<>> before)
  codecDone,  \* the uuids whose io.dump returned
  removed,    \* the uuid whose descriptor was removed from ret (<<>>: none)
  todo,       \* load: the items of artifacts.items() still to visit
  ref_artifacts, ref_ios, lrefs,   \* load: ref_artifacts, ref_ios, refs
  j,          \* load: position of the loop over ref_ios.items()
  ioSeen,     \* load: the names taken for descriptors
  loadCalls,  \* load: uuid -> the artifacts handed to its io.load
  result      \* what load returned (<<>> before, <<value>> after)

dumpv == <<blob, refs, i, arts, ret, codecDone>>
loadv == <<todo, ref_artifacts, ref_ios, lrefs, j, ioSeen, loadCalls, result>>
vars == <<ntype, kids, seed, pc, store, open, err, removed, dumpv, loadv>>

Init ==
  /\ ntype \in [Nodes -> Types]
  /\ kids \in {<<a, b, c>> : a \in KidSeqs(1), b \in KidSeqs(2), c \in KidSeqs(3)}
  /\ \A n \in Nodes : ntype[n] = "t0" => kids[n] = <<>>
  /\ seed \in Seeds
  /\ pc = "start"
  /\ blob = <<>> /\ refs = <<>> /\ i = 1 /\ arts = <<>>
  /\ store = <<>> /\ open = {} /\ err = "none" /\ ret = <<>>
  /\ codecDone = {} /\ removed = <<>>
  /\ todo = <<>> /\ ref_artifacts = <<>> /\ ref_ios = <<>> /\ lrefs = <<>>
  /\ j = 1 /\ ioSeen = {} /\ loadCalls = <<>> /\ result = <<>>

\* --------------------------------------------------------------- dump
CurUuid == refs[i][1]
CurIo == refs[i][2][1]
CurObj == refs[i][2][2]

\* model_blob, refs = self._serialize_model(model); arts = {}
Serialize ==
  /\ pc = "start"
  /\ LET r == _serialize_model(1)
     IN  /\ blob' = r[1]
         /\ refs' = r[2]
         /\ pc' = IF Len(r[2]) = 0 THEN "open_single" ELSE "open_root"
  /\ arts' = <<>>
  /\ UNCHANGED <<graph, i, store, open, err, ret, codecDone, removed, loadv>>

\* with storage.open(path) as (f, art):
OpenSingle ==
  /\ pc = "open_single"
  /\ open' = open \cup {RootPath(0)}
  /\ store' = (RootPath(0) :> EmptyBlob) @@ store
  /\ pc' = "write_single"
  /\ UNCHANGED <<graph, err, removed, dumpv, loadv>>

\* f.write(model_blob); return {self.file_name: art}
WriteSingle ==
  /\ pc = "write_single"
  /\ store' = (RootPath(0) :> RootBlob(blob)) @@ store
  /\ open' = ExitWith(open, RootPath(0), FALSE)
  /\ ret' = << <<file_name, Artifact(RootPath(0))>> >>
  /\ pc' = "dumped"
  /\ UNCHANGED <<graph, err, removed, blob, refs, i, arts, codecDone, loadv>>

\* f.write raises
WriteSingleFail ==
  /\ pc = "write_single"
  /\ open' = ExitWith(open, RootPath(0), TRUE)
  /\ err' = "StorageError"
  /\ pc' = "dump_failed"
  /\ UNCHANGED <<graph, store, removed, dumpv, loadv>>

\* with storage.open(posixpath.join(path, self.file_name)) as (f, art):
OpenRoot ==
  /\ pc = "open_root"
  /\ open' = open \cup {RootPath(Len(refs))}
  /\ store' = (RootPath(Len(refs)) :> EmptyBlob) @@ store
  /\ pc' = "write_root"
  /\ UNCHANGED <<graph, err, removed, dumpv, loadv>>

\* f.write(model_blob); arts[self.file_name] = art
WriteRoot ==
  /\ pc = "write_root"
  /\ store' = (RootPath(Len(refs)) :> RootBlob(blob)) @@ store
  /\ arts' = Put(arts, file_name, Artifact(RootPath(Len(refs))))
  /\ open' = ExitWith(open, RootPath(Len(refs)), FALSE)
  /\ i' = 1
  /\ pc' = "codec_dump"
  /\ UNCHANGED <<graph, err, removed, blob, refs, ret, codecDone, loadv>>

WriteRootFail ==
  /\ pc = "write_root"
  /\ open' = ExitWith(open, RootPath(Len(refs)), TRUE)
  /\ err' = "StorageError"
  /\ pc' = "dump_failed"
  /\ UNCHANGED <<graph, store, removed, dumpv, loadv>>

\* arts.update({f"{uuid}_{k}": v for k, v in io.dump(...).items()})
CodecDumpOk ==
  /\ pc = "codec_dump"
  /\ store' = CodecWrites(store, CurIo, CodecPath(CurUuid), CurObj, Len(SubNames(CurIo)))
  /\ arts' = Update(arts, Rekey(CurUuid, CodecDump(CurIo, CodecPath(CurUuid), CurObj)))
  /\ codecDone' = codecDone \cup {CurUuid}
  /\ pc' = "open_io"
  /\ UNCHANGED <<graph, open, err, removed, blob, refs, i, ret, loadv>>

\* io.dump's exception swallowed: dump goes on to the descriptor.
OnCodecRaiseSwallowed == "open_io"

\* Where dump goes on when io.dump raises: nothing catches it.
OnCodecRaise == "dump_failed"

\* io.dump raises, after it wrote some of its artifacts
CodecDumpFail ==
  /\ pc = "codec_dump"
  /\ \E m \in 0..Len(SubNames(CurIo)) :
       /\ m < Len(SubNames(CurIo)) \/ m = 0
       /\ store' = CodecWrites(store, CurIo, CodecPath(CurUuid), CurObj, m)
  /\ err' = "CodecError"
  /\ pc' = OnCodecRaise
  /\ UNCHANGED <<graph, open, removed, dumpv, loadv>>

DescPath == PathJoin(TargetPath, DescName(CurUuid))

\* with storage.open(posixpath.join(path, uuid + self.io_ext)) as (f, art):
OpenIo ==
  /\ pc = "open_io"
  /\ open' = open \cup {DescPath}
  /\ store' = (DescPath :> EmptyBlob) @@ store
  /\ pc' = "write_io"
  /\ UNCHANGED <<graph, err, removed, dumpv, loadv>>

\* f.write(self._serialize_io(io)); arts[uuid + self.io_ext] = art
WriteIo ==
  /\ pc = "write_io"
  /\ store' = (DescPath :> TextBlob(_serialize_io(CurIo))) @@ store
  /\ arts' = Put(arts, DescName(CurUuid), Artifact(DescPath))
  /\ open' = ExitWith(open, DescPath, FALSE)
  /\ i' = i + 1
  /\ pc' = IF i = Len(refs) THEN "return" ELSE "codec_dump"
  /\ UNCHANGED <<graph, err, removed, blob, refs, ret, codecDone, loadv>>

WriteIoFail ==
  /\ pc = "write_io"
  /\ open' = ExitWith(open, DescPath, TRUE)
  /\ err' = "StorageError"
  /\ pc' = "dump_failed"
  /\ UNCHANGED <<graph, store, removed, dumpv, loadv>>

\* return arts
Return ==
  /\ pc = "return"
  /\ ret' = arts
  /\ pc' = "dumped"
  /\ UNCHANGED <<graph, store, open, err, removed, blob, refs, i, arts, codecDone, loadv>>

\* --------------------------------------------- between dump and load
\* One descriptor entry is taken out of the returned Artifacts.
RemoveDescriptor ==
  /\ pc = "dumped"
  /\ removed = <<>>
  /\ \E t \in Keys(refs) :
       /\ removed' = <<t>>
       /\ ret' = Remove(ret, DescName(t))
  /\ UNCHANGED <<graph, pc, store, open, err, blob, refs, i, arts, codecDone, loadv>>

\* --------------------------------------------------------------- load
\* root = artifacts[self.file_name]
Root == Get(ret, file_name)

\* refs = {}; root = ...; if len(artifacts) > 1:
LoadStart ==
  /\ pc = "dumped"
  /\ todo' = IF Len(ret) > 1 THEN ret ELSE <<>>
  /\ pc' = IF Len(ret) > 1 THEN "iter" ELSE "open_blob"
  /\ UNCHANGED <<graph, store, open, err, removed, dumpv,
                 ref_artifacts, ref_ios, lrefs, j, ioSeen, loadCalls, result>>

\* if art == root: continue
IterRoot ==
  /\ pc = "iter" /\ todo # <<>>
  /\ todo[1][2] = Root
  /\ todo' = Tail(todo)
  /\ UNCHANGED <<graph, pc, store, open, err, removed, dumpv,
                 ref_artifacts, ref_ios, lrefs, j, ioSeen, loadCalls, result>>

\* art_name.endswith(self.io_ext)
IsDescriptorName(name) == EndsWith(name, io_ext)

\* if art_name.endswith(self.io_ext): ... with art.open() as f:
IterOpenIo ==
  /\ pc = "iter" /\ todo # <<>>
  /\ todo[1][2] # Root
  /\ IsDescriptorName(todo[1][1])
  /\ open' = open \cup {todo[1][2].uri}
  /\ ioSeen' = ioSeen \cup {todo[1][1]}
  /\ pc' = "read_io"
  /\ UNCHANGED <<graph, store, err, removed, dumpv,
                 todo, ref_artifacts, ref_ios, lrefs, j, loadCalls, result>>

\* ref_ios[ref_uuid] = self._deserialize_io(f)
ReadIoOk ==
  /\ pc = "read_io"
  /\ _deserialize_io(store[todo[1][2].uri]) # "ImportError"
  /\ ref_ios' = Put(ref_ios, StripSuffix(todo[1][1], io_ext),
                    _deserialize_io(store[todo[1][2].uri]))
  /\ open' = ExitWith(open, todo[1][2].uri, FALSE)
  /\ todo' = Tail(todo)
  /\ pc' = "iter"
  /\ UNCHANGED <<graph, store, err, removed, dumpv,
                 ref_artifacts, lrefs, j, ioSeen, loadCalls, result>>

\* self._deserialize_io(f) raises
ReadIoFail ==
  /\ pc = "read_io"
  /\ _deserialize_io(store[todo[1][2].uri]) = "ImportError"
  /\ open' = ExitWith(open, todo[1][2].uri, TRUE)
  /\ err' = "ImportError"
  /\ pc' = "load_failed"
  /\ UNCHANGED <<graph, store, removed, dumpv, loadv>>

\* ref_artifacts.get(uuid, {})
GetOrEmpty(d, k) == IF k \in Keys(d) THEN Get(d, k) ELSE <<>>

\* ref_uuid, subname = art_name.split("_", maxsplit=1)
\* ref_artifacts[ref_uuid][subname] = art
IterData ==
  /\ pc = "iter" /\ todo # <<>>
  /\ todo[1][2] # Root
  /\ ~IsDescriptorName(todo[1][1])
  /\ HasChar(todo[1][1], "_")
  /\ LET sp == SplitFirst(todo[1][1], "_")
     IN  ref_artifacts' =
           Put(ref_artifacts, sp[1],
               Put(GetOrEmpty(ref_artifacts, sp[1]), sp[2], todo[1][2]))
  /\ todo' = Tail(todo)
  /\ UNCHANGED <<graph, pc, store, open, err, removed, dumpv,
                 ref_ios, lrefs, j, ioSeen, loadCalls, result>>

\* the for loop over artifacts.items() ends
IterEnd ==
  /\ pc = "iter" /\ todo = <<>>
  /\ j' = 1
  /\ pc' = IF ref_ios = <<>> THEN "open_blob" ELSE "codec_load"
  /\ UNCHANGED <<graph, store, open, err, removed, dumpv,
                 todo, ref_artifacts, ref_ios, lrefs, ioSeen, loadCalls, result>>

\* refs[uuid] = io.load(ref_artifacts.get(uuid, {}))
CodecLoadOk ==
  /\ pc = "codec_load"
  /\ LET uuid == ref_ios[j][1]
         mapping == GetOrEmpty(ref_artifacts, uuid)
         r == CodecLoad(store, ref_ios[j][2], mapping)
     IN  /\ r.err = "none"
         /\ lrefs' = Put(lrefs, uuid, r.val)
         /\ loadCalls' = Put(loadCalls, uuid, mapping)
  /\ j' = j + 1
  /\ pc' = IF j = Len(ref_ios) THEN "open_blob" ELSE "codec_load"
  /\ UNCHANGED <<graph, store, open, err, removed, dumpv,
                 todo, ref_artifacts, ref_ios, ioSeen, result>>

\* io.load raises
CodecLoadFail ==
  /\ pc = "codec_load"
  /\ err' = "CodecError"
  /\ pc' = "load_failed"
  /\ UNCHANGED <<graph, store, open, removed, dumpv, loadv>>

\* with root.open() as f:
OpenBlob ==
  /\ pc = "open_blob"
  /\ open' = open \cup {Root.uri}
  /\ pc' = "unpickle"
  /\ UNCHANGED <<graph, store, err, removed, dumpv, loadv>>

\* return self._deserialize_model(f, refs)
UnpickleOk ==
  /\ pc = "unpickle"
  /\ LET r == _deserialize_model(store[Root.uri].data, lrefs)
     IN  /\ r.err = "none"
         /\ result' = <<r.val>>
  /\ open' = ExitWith(open, Root.uri, FALSE)
  /\ pc' = "loaded"
  /\ UNCHANGED <<graph, store, err, removed, dumpv,
                 todo, ref_artifacts, ref_ios, lrefs, j, ioSeen, loadCalls>>

\* persistent_load raises inside _deserialize_model
UnpickleFail ==
  /\ pc = "unpickle"
  /\ LET r == _deserialize_model(store[Root.uri].data, lrefs)
     IN  /\ r.err # "none"
         /\ err' = r.err
  /\ open' = ExitWith(open, Root.uri, TRUE)
  /\ pc' = "load_failed"
  /\ UNCHANGED <<graph, store, removed, dumpv, loadv>>

Next ==
  \/ Serialize
  \/ OpenSingle \/ WriteSingle \/ WriteSingleFail
  \/ OpenRoot \/ WriteRoot \/ WriteRootFail
  \/ CodecDumpOk \/ CodecDumpFail
  \/ OpenIo \/ WriteIo \/ WriteIoFail
  \/ Return
  \/ RemoveDescriptor
  \/ LoadStart
  \/ IterRoot \/ IterOpenIo \/ ReadIoOk \/ ReadIoFail \/ IterData \/ IterEnd
  \/ CodecLoadOk \/ CodecLoadFail
  \/ OpenBlob \/ UnpickleOk \/ UnpickleFail

Spec == Init /\ [][Next]_vars

\* ------------------------------------------------------ the properties
\* dump returned (and load may be running or over).
AfterDump ==
  pc \in {"dumped", "iter", "read_io", "codec_load", "open_blob", "unpickle",
          "loaded", "load_failed"}

\* _serialize_model has just returned.
Serialized == pc \in {"open_single", "open_root"}

\* dump is running or has just ended.
InDump ==
  pc \in {"open_single", "write_single", "open_root", "write_root", "codec_dump",
          "open_io", "write_io", "return", "dumped", "dump_failed"}

\* The placeholders of the root byte stream.
PersOps == {k \in DOMAIN blob : blob[k][1] = "PERSID"}
StreamTokens == {blob[k][2] : k \in PersOps}

\* The objects the hook intercepted.
RefObjs == {refs[k][2][2] : k \in DOMAIN refs}

AsMap(d) == {<<d[k][1], d[k][2]>> : k \in DOMAIN d}

RECURSIVE SumSub(_)
\* The number of artifacts the referenced codecs return, all references together.
SumSub(rs) ==
  IF rs = <<>> THEN 0 ELSE Len(SubNames(rs[1][2][1])) + SumSub(Tail(rs))

RECURSIVE Reach(_)
Reach(n) == {n} \cup UNION {Reach(kids[n][k]) : k \in DOMAIN kids[n]}

\* The number of fields, of all objects, that hold object n.
InDegree(n) == Cardinality({<<m, k>> \in Nodes \X (1..MaxKids) :
                              k \in DOMAIN kids[m] /\ kids[m][k] = n})

\* Cases (a), (b), (c) of the fallback: the type is unknown to every hook, the
\* analyzer raises ValueError, or the analyzer answers with a pickle IO.
Fallback(n) ==
  \/ ntype[n] \notin known_types
  \/ Analyze(ntype[n]) = "ValueError"
  \/ Analyze(ntype[n]) \in PickleIOs

DescPathOf(t) == PathJoin(TargetPath, DescName(t))

CodecPathsOf(k) ==
  {PathJoin(CodecPath(refs[k][1]), SubNames(refs[k][2][1])[m]) :
     m \in DOMAIN SubNames(refs[k][2][1])}

RootWritten ==
  /\ RootPath(Len(refs)) \in DOMAIN store
  /\ store[RootPath(Len(refs))] = RootBlob(blob)

DescWritten(k) ==
  /\ DescPathOf(refs[k][1]) \in DOMAIN store
  /\ store[DescPathOf(refs[k][1])] = TextBlob(_serialize_io(refs[k][2][1]))

\* C1: load applied to the Artifacts a dump returned gives back a value equal
\* to the dumped one, every intercepted sub-value reloaded by its codec and put
\* where its placeholder stood; a load of an untouched dump ends in an error
\* only when a referenced codec's load raised.
C1_RoundTrip ==
  removed = <<>> =>
    /\ pc = "loaded" => result = <<Unfold(1)>>
    /\ pc = "load_failed" => err = "CodecError"

\* C2: after one descriptor entry was removed from the Artifacts of a dump,
\* load never returns a value: it ends in an error, and once it reaches the
\* unpickling of the root blob the lookup of the missing uuid raises.
C2_CorruptionDetected ==
  removed # <<>> =>
    /\ pc # "loaded"
    /\ result = <<>>
    /\ pc = "load_failed" => err \in {"KeyError", "ImportError", "CodecError"}
    /\ pc = "unpickle" =>
         _deserialize_model(store[Root.uri].data, lrefs).err = "KeyError"

\* C2 witness: the descriptor of the only reference was removed, the root
\* artifact is the only entry left, and load ended in the KeyError.
C2_Witness ==
  /\ removed # <<>> /\ Len(ret) = 1 /\ Len(refs) = 1
  /\ pc = "load_failed" /\ err = "KeyError"

\* C3: a dump that intercepted N >= 1 sub-values returns exactly
\* 1 + N + (sum of Mi) entries with pairwise distinct names: data.pkl, one
\* T.io per uuid T and T_<name> per artifact of T's codec, each entry still
\* holding the artifact written for it.
C3_NoCollision ==
  (pc = "dumped" /\ removed = <<>> /\ refs # <<>>) =>
    /\ Len(ret) = 1 + Len(refs) + SumSub(refs)
    /\ Cardinality(Keys(ret)) = Len(ret)
    /\ Keys(ret) =
         {file_name}
         \cup {refs[k][1] \o io_ext : k \in DOMAIN refs}
         \cup UNION {{refs[k][1] \o <<"_">> \o SubNames(refs[k][2][1])[m] :
                        m \in DOMAIN SubNames(refs[k][2][1])} : k \in DOMAIN refs}
    /\ Get(ret, file_name) = Artifact(PathJoin(TargetPath, file_name))
    /\ \A k \in DOMAIN refs :
         /\ Get(ret, refs[k][1] \o io_ext) = Artifact(DescPathOf(refs[k][1]))
         /\ \A m \in DOMAIN SubNames(refs[k][2][1]) :
              Get(ret, refs[k][1] \o <<"_">> \o SubNames(refs[k][2][1])[m])
                = Artifact(PathJoin(CodecPath(refs[k][1]), SubNames(refs[k][2][1])[m]))

\* C3 witness: a dump with two references, of two codecs that return one
\* and two artifacts.
C3_Witness ==
  /\ pc = "dumped" /\ removed = <<>>
  /\ Len(refs) = 2
  /\ refs[1][2][1] = "IoA" /\ refs[2][2][1] = "IoB"
  /\ Len(ret) = 6

\* C4: with empty refs dump writes one blob, at the target path itself, and
\* returns the single entry data.pkl; nothing else is ever written.
C4_SingleArtifact ==
  (pc # "start" /\ refs = <<>>) =>
    /\ DOMAIN store \subseteq {TargetPath}
    /\ AfterDump =>
         /\ ret = << <<file_name, Artifact(TargetPath)>> >>
         /\ DOMAIN store = {TargetPath}
         /\ store[TargetPath] = RootBlob(blob)

\* C4 witness: a graph of several plain objects was dumped as one artifact.
C4_Witness ==
  /\ pc = "dumped" /\ refs = <<>>
  /\ Len(blob) >= 3
  /\ Len(ret) = 1

\* C5: the hook files no reference and emits no placeholder for an object
\* whose type is unknown, whose analysis raises ValueError, or whose IO is
\* PickleModelIO or SimplePickleIO; the ValueError never ends the dump; a
\* graph of such objects only is dumped as a single artifact.
C5_Fallback ==
  /\ Serialized =>
       /\ \A k \in DOMAIN refs :
            /\ ~Fallback(refs[k][2][2])
            /\ refs[k][2][1] = Analyze(ntype[refs[k][2][2]])
       /\ \A n \in Nodes :
            Fallback(n) =>
              persistent_id(refs, Len(refs), n)
                = [pid |-> NonePid, refs |-> refs, cnt |-> Len(refs)]
  /\ (pc \in {"open_single", "open_root", "dumped"}
        /\ \A n \in Reach(1) : Fallback(n)) =>
       /\ refs = <<>>
       /\ PersOps = {}
       /\ pc = "dumped" => Len(ret) = 1 /\ DOMAIN store = {TargetPath}
  /\ err # "ValueError"

\* C5 witness: the dumped model's analysis raises ValueError, its fields are a
\* SimplePickleIO model and a PickleModelIO model; it was dumped as one artifact.
C5_Witness ==
  /\ pc = "dumped"
  /\ ntype[1] = "tNA" /\ kids[1] = <<2, 3>>
  /\ ntype[2] = "tSPkl" /\ ntype[3] = "tPkl"
  /\ refs = <<>> /\ Len(ret) = 1

\* C6: after a successful dump the uuids emitted into the root byte stream,
\* the keys of refs and the uuids T with an entry T.io in the returned
\* Artifacts are one set; each has exactly one descriptor entry, and no two
\* entries of refs share a uuid.
C6_TokenDescriptor ==
  (pc = "dumped" /\ removed = <<>>) =>
    /\ StreamTokens = Keys(refs)
    /\ Keys(refs) = {t \in Tokens : t \o io_ext \in Keys(ret)}
    /\ \A t \in Keys(refs) :
         Cardinality({k \in DOMAIN ret : ret[k][1] = t \o io_ext}) = 1
    /\ \A a, b \in DOMAIN refs : a # b => refs[a][1] # refs[b][1]
    /\ \A a, b \in PersOps : a # b => blob[a][2] # blob[b][2]

\* C6 witness: a dump with two references, one of a codec whose artifact name
\* ends in ".io" and one of a codec that writes no artifact.
C6_Witness ==
  /\ pc = "dumped" /\ removed = <<>>
  /\ Len(refs) = 2
  /\ refs[1][2][1] = "IoB" /\ refs[2][2][1] = "Io0"

\* C7: load takes for descriptors exactly the T.io entries dump wrote and
\* hands each uuid's codec exactly the artifacts its dump returned, whatever
\* names the codec chose.
C7_Demultiplex ==
  (removed = <<>> /\ AfterDump) =>
    /\ ioSeen \subseteq {DescName(refs[k][1]) : k \in DOMAIN refs}
    /\ pc \in {"open_blob", "unpickle", "loaded"} =>
         /\ ioSeen = {DescName(refs[k][1]) : k \in DOMAIN refs}
         /\ \A k \in DOMAIN refs :
              /\ refs[k][1] \in Keys(loadCalls)
              /\ AsMap(Get(loadCalls, refs[k][1]))
                   = AsMap(CodecDump(refs[k][2][1], CodecPath(refs[k][1]), refs[k][2][2]))
    /\ pc = "load_failed" => err = "CodecError"

\* C8 as claimed: refs has one entry per distinct intercepted object.
C8_OnePerSubValue ==
  Serialized => Len(refs) = Cardinality(RefObjs)

\* C8: one uuid is minted per interception, that is per placeholder of the
\* root byte stream: refs has as many entries as the stream has placeholders,
\* at least one per intercepted object, and exactly one per intercepted object
\* when no intercepted object is held by more than one field.
C8_OnePerOccurrence ==
  Serialized =>
    /\ Len(refs) = Cardinality(PersOps)
    /\ Cardinality(Keys(refs)) = Len(refs)
    /\ Cardinality(RefObjs) <= Len(refs)
    /\ (\A n \in RefObjs : InDegree(n) <= 1) => Len(refs) = Cardinality(RefObjs)

\* C8 witness: one object held by two fields was intercepted twice.
C8_Witness ==
  /\ Serialized
  /\ Len(refs) = 2
  /\ Cardinality(RefObjs) = 1
  /\ Cardinality(PersOps) = 2

\* C9: a handle is open only inside its with block: none while a referenced
\* codec dumps or loads, none after dump or load ended, by return or by raise.
C9_ScopedHandles ==
  open = CASE pc = "write_single" -> {TargetPath}
           [] pc = "write_root" -> {PathJoin(TargetPath, file_name)}
           [] pc = "write_io" -> {DescPathOf(refs[i][1])}
           [] pc = "read_io" -> {todo[1][2].uri}
           [] pc = "unpickle" -> {Get(ret, file_name).uri}
           [] OTHER -> {}

\* C9 witness: the codec dump of the second reference raised, after the root
\* blob and the first descriptor were written and closed.
C9_Witness ==
  /\ pc = "dump_failed" /\ err = "CodecError"
  /\ i = 2 /\ open = {}
  /\ DescWritten(1)

\* C10: the root blob is written first, then per uuid the codec's artifacts
\* and after them the descriptor: a descriptor is in the store only if its
\* codec dump returned, the root blob is written and the earlier uuids are
\* complete.  When a codec dump raises, its error ends dump, nothing is
\* returned, no descriptor of that or a later uuid and no artifact of a later
\* uuid is written, and what was written before stays.
C10_WriteOrder ==
  /\ InDump =>
       \A k \in DOMAIN refs :
         /\ DescPathOf(refs[k][1]) \in DOMAIN store =>
              /\ refs[k][1] \in codecDone
              /\ RootWritten
              /\ CodecPathsOf(k) \subseteq DOMAIN store
              /\ \A m \in 1..(k - 1) : DescWritten(m)
         /\ CodecPathsOf(k) \cap DOMAIN store # {} =>
              /\ RootWritten
              /\ \A m \in 1..(k - 1) : DescWritten(m)
  /\ (pc = "dump_failed" /\ err = "CodecError") =>
       /\ ret = <<>>
       /\ RootWritten
       /\ \A k \in i..Len(refs) : DescPathOf(refs[k][1]) \notin DOMAIN store
       /\ \A k \in (i + 1)..Len(refs) : CodecPathsOf(k) \cap DOMAIN store = {}
       /\ \A k \in 1..(i - 1) :
            DescWritten(k) /\ CodecPathsOf(k) \subseteq DOMAIN store

\* C10 witness: the codec dump of the second of three references raised after
\* writing one of its two artifacts.
C10_Witness ==
  /\ pc = "dump_failed" /\ err = "CodecError"
  /\ Len(refs) = 3 /\ i = 2
  /\ refs[2][2][1] = "IoB"
  /\ Cardinality(CodecPathsOf(2) \cap DOMAIN store) = 1

====
